---------------------------- MODULE Spec2Model ----------------------------
(***************************************************************************)
(* The line-oriented C++ lint checkers of ci/lint_cpp (bare allocation,    *)
(* bare using, ctype, std namespace, span-from-pointer, Arduino macro).    *)
(*                                                                         *)
(* A source line is a sequence of lexical chunks (tokens) separated by     *)
(* blanks; a token is written as the text it stands for.  A substring      *)
(* test of the code (`"/*" in line`) is a test on the tokens that hold     *)
(* that text, a regular expression anchored at the start of the line is a  *)
(* test on the first token, and a search is a test on some token.          *)
(*                                                                         *)
(* One call of check_file_content is the loop                              *)
(*     BeginScan ; (ScanLine ; Advance)* ; EndScan                         *)
(* over the lines of the file, which are drawn one by one from the lines   *)
(* of the rule under scan.                                                 *)
(***************************************************************************)
EXTENDS Integers, Sequences, FiniteSets, TLC

\* Longest file scanned, in lines.
MaxLines == 3
\* Calls of check_file_content made on one checker instance.
MaxScans == 2

Rules == {"alloc", "using", "ctype", "std", "span", "arduino"}
Paths == {"src/fl/a.h", "src/fl/b.h"}

---------------------------------------------------------------------------
(* Sequence helpers *)

Has(line, S) == \E i \in 1..Len(line) : line[i] \in S

\* Index of the first token of the line that lies in S, 0 when there is none.
FirstIdx(line, S) ==
    IF Has(line, S)
    THEN CHOOSE i \in 1..Len(line) :
             line[i] \in S /\ \A j \in 1..(i - 1) : line[j] \notin S
    ELSE 0

Prefix(line, k) == SubSeq(line, 1, k)
Suffix(line, k) == SubSeq(line, k, Len(line))

RECURSIVE Count(_, _)
Count(line, S) ==
    IF line = << >> THEN 0
    ELSE (IF Head(line) \in S THEN 1 ELSE 0) + Count(Tail(line), S)

RECURSIVE Filter(_, _)
Filter(seq, S) ==
    IF seq = << >> THEN << >>
    ELSE (IF Head(seq)[1] \in S THEN << Head(seq) >> ELSE << >>)
             \o Filter(Tail(seq), S)

---------------------------------------------------------------------------
(* Tokens: the lexical chunks of a line, named by their text *)

\* Suppression markers, by rule and spelling ("// ok <rule-name>",
\* "// okay <rule-name>").
MarkerOk(rule) ==
    CASE rule = "alloc"   -> "// ok bare allocation"
      [] rule = "using"   -> "// ok bare using"
      [] rule = "ctype"   -> "// ok ctype"
      [] rule = "std"     -> "// ok std namespace"
      [] rule = "span"    -> "// ok span from pointer"
      [] rule = "arduino" -> "// ok arduino macro"

MarkerOkay(rule) ==
    CASE rule = "alloc"   -> "// okay bare allocation"
      [] rule = "using"   -> "// okay bare using"
      [] rule = "ctype"   -> "// okay ctype"
      [] rule = "std"     -> "// okay std namespace"
      [] rule = "span"    -> "// okay span from pointer"
      [] rule = "arduino" -> "// okay arduino macro"

MarkerToks == { MarkerOk(r) : r \in Rules } \cup { MarkerOkay(r) : r \in Rules }

\* Tokens whose text holds "//", "/*", "*/".
SlashSlashToks == {"//"} \cup MarkerToks
BlockOpenToks  == {"/*"}
BlockCloseToks == {"*/"}

\* Double-quoted string literals and character literals.
StringToks == {"\"new Foo\"", "\"{\"", "\"std::x\""}
CharToks   == {"'}'"}

\* Tokens that begin with '#'.
HashToks == {"#if X {", "#define INPUT 0"}

\* Number of '{' and of '}' in a token's text.
OpenBraceToks  == {"namespace a {", "namespace fl {", "namespace {",
                   "extern \"C\" {", "extern \"\" {", "class X {",
                   "void f() {", "{", "\"{\"", "#if X {"}
CloseBraceToks == {"}", "'}'"}


OpenBraces(line)  == Count(line, OpenBraceToks)
CloseBraces(line) == Count(line, CloseBraceToks)

---------------------------------------------------------------------------
(* Scan state: the local variables check_file_content carries from line to
   line.  Each checker uses the fields its code declares. *)

FreshState ==
    [ in_block_comment            |-> FALSE,   \* bare using
      scope_stack                 |-> << >>,   \* bare using
      in_multiline_comment        |-> FALSE,   \* the five other checkers
      fl_namespace_depth          |-> 0,       \* ctype
      brace_depth_at_fl_namespace |-> << >>,   \* ctype
      brace_depth                 |-> 0 ]      \* ctype

\* What one iteration of the loop yields: the state carried on, and the
\* messages appended to the violations list for this line, in order.
Result(st, out) == [st |-> st, out |-> out]

\* line.split("//")[0]: the text before the first "//" of the line.
CodePart(line) ==
    LET pos == FirstIdx(line, SlashSlashToks)
    IN  IF pos > 0 THEN Prefix(line, pos - 1) ELSE line

\* stripped.startswith("//")
StartsWithLineComment(line) == Len(line) > 0 /\ line[1] \in SlashSlashToks

\* The block-comment tracking shared, copy by copy, by the bare-allocation,
\* ctype, std, span and Arduino checkers:
\*     if "/*" in line: flag = True
\*     if "*/" in line: flag = False; continue
\*     if flag: continue
CommentTrack(flag, line) ==
    LET opened == IF Has(line, BlockOpenToks) THEN TRUE ELSE flag
    IN  IF Has(line, BlockCloseToks)
        THEN [flag |-> FALSE, skip |-> TRUE]
        ELSE [flag |-> opened, skip |-> opened]

---------------------------------------------------------------------------
(* BareUsingChecker *)

UsingDeclToks == {"using X::Y;", "using namespace X;"}
AliasToks     == {"using A = B::C;"}
\* Tokens whose text holds '='.
EqToks        == {"using A = B::C;", "int a = 1;", "= delete;", "DEFAULT = 0,"}

\* re.sub(r'"[^"\\]*(?:\\.[^"\\]*)*"', '""', line): every double-quoted
\* literal is emptied, also the "C" of extern "C".
StripStringTok(t) ==
    IF t \in StringToks THEN "\"\""
    ELSE IF t = "extern \"C\" {" THEN "extern \"\" {"
    ELSE t

StripStrings(line) == [i \in 1..Len(line) |-> StripStringTok(line[i])]

\* _strip_strings_and_comments
strip_strings_and_comments(line) == CodePart(StripStrings(line))

\* _RE_USING_DECL.search(clean): anchored at the start of the line; the
\* lookahead (?!.*\s*=) rejects a line with '=' anywhere after the keyword.
RE_USING_DECL_lax(clean) ==
    Len(clean) > 0 /\ clean[1] \in (UsingDeclToks \cup AliasToks)

RE_USING_DECL(clean) ==
    /\ Len(clean) > 0
    /\ clean[1] \in UsingDeclToks
    /\ ~Has(Suffix(clean, 2), EqToks)

\* _RE_SUPPRESS.search(line), on the raw line
RE_SUPPRESS(line) == Has(line, {MarkerOk("using"), MarkerOkay("using")})

RE_ANON_NAMESPACE(clean)  == Len(clean) > 0 /\ clean[1] = "namespace {"
RE_NAMED_NAMESPACE(clean) ==
    Len(clean) > 0 /\ clean[1] \in {"namespace a {", "namespace fl {"}
RE_EXTERN_C(clean)        == Len(clean) > 0 /\ clean[1] = "extern \"C\" {"
RE_LOCAL_SCOPE_KEYWORD(clean) == Len(clean) > 0 /\ clean[1] = "class X {"
RE_PREPROCESSOR(line)     == Len(line) > 0 /\ line[1] \in HashToks

Locals(k) == [i \in 1..k |-> "local"]

\* scope_types_to_push: the first brace takes the kind of the opener the
\* line starts with, every other brace of the line is "local".
scope_types_to_push(clean) ==
    LET open == OpenBraces(clean)
    IN  IF open > 0
        THEN IF RE_ANON_NAMESPACE(clean) THEN << "local" >> \o Locals(open - 1)
             ELSE IF RE_NAMED_NAMESPACE(clean)
                  THEN << "namespace" >> \o Locals(open - 1)
             ELSE IF RE_EXTERN_C(clean)
                  THEN << "namespace" >> \o Locals(open - 1)
             ELSE IF RE_LOCAL_SCOPE_KEYWORD(clean)
                  THEN << "local" >> \o Locals(open - 1)
             ELSE Locals(open)
        ELSE << >>

\* The pops without the `if scope_stack` test: list.pop() of an empty list
\* raises IndexError, written here as the entry "IndexError".
RECURSIVE PopScopesUnguarded(_, _)
PopScopesUnguarded(stack, k) ==
    IF k = 0 THEN stack
    ELSE IF stack = << >> THEN << "IndexError" >>
    ELSE PopScopesUnguarded(Prefix(stack, Len(stack) - 1), k - 1)

\* for _ in range(close_braces): if scope_stack: scope_stack.pop()
RECURSIVE PopScopes(_, _)
PopScopes(stack, k) ==
    IF k = 0 \/ stack = << >> THEN stack
    ELSE PopScopes(Prefix(stack, Len(stack) - 1), k - 1)

is_namespace_scope(stack) == \A i \in 1..Len(stack) : stack[i] = "namespace"

\* Whether the line opens a block comment: only a "/*" before the first
\* "//" counts.
BlockStartWholeLine(line) == line

BlockStartText(line) ==
    LET pos == FirstIdx(line, SlashSlashToks)
    IN  IF pos > 0 THEN Prefix(line, pos - 1) ELSE line

\* One iteration of BareUsingChecker.check_file_content's loop.
UsingStepBody(st, line) ==
    IF st.in_block_comment
    THEN Result([st EXCEPT !.in_block_comment = ~Has(line, BlockCloseToks)],
                << >>)
    ELSE
    LET line_before_line_comment == BlockStartText(line) IN
    IF Has(line_before_line_comment, BlockOpenToks)
    THEN LET start_pos == FirstIdx(line_before_line_comment, BlockOpenToks)
             rest      == Suffix(line, start_pos + 1)
         IN  Result([st EXCEPT !.in_block_comment =
                                   ~Has(rest, BlockCloseToks)], << >>)
    ELSE IF RE_PREPROCESSOR(line) THEN Result(st, << >>)
    ELSE
    LET clean  == strip_strings_and_comments(line)
        pushed == st.scope_stack \o scope_types_to_push(clean)
        stack  == PopScopes(pushed, CloseBraces(clean))
        st1    == [st EXCEPT !.scope_stack = stack]
    IN  IF /\ RE_USING_DECL(clean)
           /\ ~RE_SUPPRESS(line)
           /\ is_namespace_scope(stack)
        THEN Result(st1, << line >>)
        ELSE Result(st1, << >>)

UsingStepSuppressFirst(st, line) ==
    IF RE_SUPPRESS(line) THEN Result(st, << >>) ELSE UsingStepBody(st, line)

\* The body with the report made before the scopes of the line are applied.
UsingStepReportSkipsScopes(st, line) ==
    LET r == UsingStepBody(st, line)
    IN  IF r.out # << >> THEN Result(st, r.out) ELSE r

UsingStep(st, line) == UsingStepBody(st, line)

---------------------------------------------------------------------------
(* BareAllocationChecker *)

\* _NEW_ALLOC_RE  \bnew\s+[A-Za-z_\:]   (placement new "new (p) Foo" is no match)
NewToks         == {"new Foo()"}
\* _DELETE_RE  \bdelete\b
DeleteToks      == {"delete p;", "= delete;", "operator delete"}
\* _MALLOC_FAMILY_RE  (?<!::)(?<!\.)\b(malloc|calloc|realloc)\s*\(
MallocToks      == {"malloc(10)", "calloc(1, 2)"}
\* _FREE_RE  (?<!::)(?<!\.)\bfree\s*\(
FreeToks        == {"free(p)"}
\* Qualified calls, which neither pattern matches.
QualifiedToks   == {"fl::malloc(10)", "p.malloc(10)", "fl::free(p)"}
OperatorToks    == {"operator new", "operator delete"}
\* =\s*delete\s*[;{]   and   =\s*delete\s*$
EqDeleteToks    == {"= delete;"}

MallocFunc(t) == IF t = "malloc(10)" THEN "malloc" ELSE "calloc"

\* _STRING_LITERAL_RE.sub('""', code_part): string and character literals.
StripLiterals(line) ==
    [i \in 1..Len(line) |->
        IF line[i] \in StringToks \cup CharToks THEN "\"\"" ELSE line[i]]

\* The checker's two marker texts, tested with `in line`.
AllocSuppressedOkOnly(line) == Has(line, {MarkerOk("alloc")})

AllocSuppressed(line) == Has(line, {MarkerOk("alloc"), MarkerOkay("alloc")})

\* The four pattern checks without the `continue` after each append.
AllocMatchAll(code_part) ==
    (IF Has(code_part, NewToks) THEN << "new" >> ELSE << >>)
    \o (IF Has(code_part, DeleteToks) THEN << "delete" >> ELSE << >>)
    \o (IF Has(code_part, MallocToks)
        THEN << MallocFunc(code_part[FirstIdx(code_part, MallocToks)]) >>
        ELSE << >>)
    \o (IF Has(code_part, FreeToks) THEN << "free" >> ELSE << >>)

\* Lines 146-174: the first pattern that matches reports the line, once.
AllocMatch(code_part) ==
    IF Has(code_part, NewToks) THEN << "new" >>
    ELSE IF Has(code_part, DeleteToks) THEN << "delete" >>
    ELSE IF Has(code_part, MallocToks)
         THEN << MallocFunc(code_part[FirstIdx(code_part, MallocToks)]) >>
    ELSE IF Has(code_part, FreeToks) THEN << "free" >>
    ELSE << >>

\* One iteration of BareAllocationChecker.check_file_content's loop.
AllocStep(st, line) ==
    LET ct  == CommentTrack(st.in_multiline_comment, line)
        st1 == [st EXCEPT !.in_multiline_comment = ct.flag]
        code_part == StripLiterals(CodePart(line))
    IN  IF ct.skip \/ StartsWithLineComment(line) \/ AllocSuppressed(line)
        THEN Result(st1, << >>)
        ELSE IF Has(code_part, OperatorToks) \/ Has(code_part, EqDeleteToks)
        THEN Result(st1, << >>)
        ELSE Result(st1, AllocMatch(code_part))

---------------------------------------------------------------------------
(* CtypeGlobalChecker *)

\* The checked functions the model names (two of _ALL_FUNCTIONS).
CtypeFuncs == {"strlen", "memcmp"}

\* Tokens _PATTERN matches for a function: bare, ::f( and also fl::f(
\* (the lookbehind (?<!\w) passes after ':').
PatternToks(f) ==
    IF f = "strlen" THEN {"strlen(a)", "::strlen(a)", "fl::strlen(a)"}
    ELSE {"memcmp(b, c, n)"}
\* Tokens _FL_PATTERN matches.
FlPatternToks(f) == IF f = "strlen" THEN {"fl::strlen(a)"} ELSE {}

\* Braces of the code part in text order, one entry per character.
RECURSIVE BraceChars(_)
BraceChars(code_part) ==
    IF code_part = << >> THEN << >>
    ELSE (IF Head(code_part) \in OpenBraceToks THEN << "{" >>
          ELSE IF Head(code_part) \in CloseBraceToks THEN << "}" >>
          ELSE << >>) \o BraceChars(Tail(code_part))

\* for ch in code_part: ...   (lines 140-150)
RECURSIVE CtypeBraces(_, _)
CtypeBraces(st, chars) ==
    IF chars = << >> THEN st
    ELSE IF Head(chars) = "{"
    THEN CtypeBraces([st EXCEPT !.brace_depth = @ + 1], Tail(chars))
    ELSE LET d     == st.brace_depth - 1
             stack == st.brace_depth_at_fl_namespace
         IN  IF stack # << >> /\ d = stack[Len(stack)]
             THEN CtypeBraces(
                      [st EXCEPT !.brace_depth = d,
                                 !.fl_namespace_depth = @ - 1,
                                 !.brace_depth_at_fl_namespace =
                                     Prefix(stack, Len(stack) - 1)],
                      Tail(chars))
             ELSE CtypeBraces([st EXCEPT !.brace_depth = d], Tail(chars))

\* The order in which `for func in set(all_matches)` visits the functions:
\* the iteration order of a set of strings follows their hashes, which the
\* interpreter salts per process (hash_seed).
SetOrder(funcs, hash_seed) ==
    LET all == IF hash_seed = 0 THEN << "strlen", "memcmp" >>
               ELSE << "memcmp", "strlen" >>
    IN  SelectSeq(all, LAMBDA f : f \in funcs)

CtypeSuppressed(line) == Has(line, {MarkerOk("ctype"), MarkerOkay("ctype")})

\* Lines 160-185.
CtypeMatch(code_part, hash_seed) ==
    LET all_funcs == { f \in CtypeFuncs : Has(code_part, PatternToks(f)) }
        n_all == Count(code_part, UNION { PatternToks(f) : f \in CtypeFuncs })
        n_fl  == Count(code_part, UNION { FlPatternToks(f) : f \in CtypeFuncs })
        hit(f) == Count(code_part, PatternToks(f))
                      > Count(code_part, FlPatternToks(f))
    IN  IF n_all - n_fl > 0
        THEN SelectSeq(SetOrder(all_funcs, hash_seed), hit)
        ELSE << >>

\* One iteration of CtypeGlobalChecker.check_file_content's loop.
CtypeStep(st, line, hash_seed) ==
    LET ct  == CommentTrack(st.in_multiline_comment, line)
        st1 == [st EXCEPT !.in_multiline_comment = ct.flag]
    IN  IF ct.skip \/ StartsWithLineComment(line) THEN Result(st1, << >>)
        ELSE
        LET code_part == CodePart(line)
            st2 == IF Has(code_part, {"namespace fl {"})
                   THEN [st1 EXCEPT
                           !.fl_namespace_depth = @ + 1,
                           !.brace_depth_at_fl_namespace =
                               Append(@, st1.brace_depth)]
                   ELSE st1
            st3 == CtypeBraces(st2, BraceChars(code_part))
        IN  IF st3.fl_namespace_depth > 0 \/ CtypeSuppressed(line)
            THEN Result(st3, << >>)
            ELSE Result(st3, CtypeMatch(code_part, hash_seed))

---------------------------------------------------------------------------
(* StdNamespaceChecker *)

\* Tokens whose text holds "std::" (a string literal is not stripped here).
StdToks        == {"std::vector<int> v;", "std::memory_order_acquire",
                   "\"std::x\""}
\* Tokens all of whose std::\w+ usages are in ALLOWED_STD_SYMBOLS.
AllowedStdToks == {"std::memory_order_acquire"}

\* "// okay std namespace" in line: the only spelling the checker knows.
StdSuppressed(line) == Has(line, {MarkerOkay("std")})

\* _has_allowed_std_symbol(line)
has_allowed_std_symbol(line) ==
    LET code_part == CodePart(line)
    IN  \A i \in 1..Len(code_part) :
            code_part[i] \in StdToks => code_part[i] \in AllowedStdToks

\* One iteration of StdNamespaceChecker.check_file_content's loop.
StdStep(st, line) ==
    LET ct  == CommentTrack(st.in_multiline_comment, line)
        st1 == [st EXCEPT !.in_multiline_comment = ct.flag]
        code_part == CodePart(line)
    IN  IF ct.skip \/ StartsWithLineComment(line) THEN Result(st1, << >>)
        ELSE IF /\ Has(code_part, StdToks)
                /\ ~StdSuppressed(line)
                /\ ~has_allowed_std_symbol(line)
        THEN Result(st1, << "std" >>)
        ELSE Result(st1, << >>)

---------------------------------------------------------------------------
(* SpanFromPointerChecker *)

\* Tokens that _SPAN_DATA_SIZE_RE matches.
SpanPtrToks == {"span<T>(v.data(), v.size())"}

\* _SUPPRESSION in line: "// ok span from pointer", the only spelling.
SpanSuppressed(line) == Has(line, {MarkerOk("span")})

\* One iteration of SpanFromPointerChecker.check_file_content's loop.
SpanStep(st, line) ==
    LET ct  == CommentTrack(st.in_multiline_comment, line)
        st1 == [st EXCEPT !.in_multiline_comment = ct.flag]
        code_part == CodePart(line)
    IN  IF \/ ct.skip
           \/ StartsWithLineComment(line)
           \/ SpanSuppressed(line)
        THEN Result(st1, << >>)
        ELSE IF Has(code_part, SpanPtrToks)
        THEN Result(st1, << "span" >>)
        ELSE Result(st1, << >>)

---------------------------------------------------------------------------
(* ArduinoMacroUsageChecker *)

\* BANNED_MACROS, in the order MACRO_PATTERNS is iterated.
BANNED_MACROS == << "INPUT", "OUTPUT", "DEFAULT" >>

\* Tokens MACRO_PATTERNS[name] (\bname\b) finds.
MacroToks(name) ==
    CASE name = "INPUT"   -> {"pinMode(1, INPUT);", "#define INPUT 0"}
      [] name = "OUTPUT"  -> {"pinMode(2, OUTPUT);"}
      [] name = "DEFAULT" -> {"E::DEFAULT", "DEFAULT = 0,"}
\* SCOPED_ENUM_PATTERN  ::\s*(?:INPUT|OUTPUT|DEFAULT)\b
ScopedEnumToks == {"E::DEFAULT"}
\* ENUM_MEMBER_PATTERN, anchored at the start of the line
EnumMemberToks == {"DEFAULT = 0,"}

\* PREPROCESSOR_PATTERN.match(code_part)
PREPROCESSOR_PATTERN(code_part) ==
    Len(code_part) > 0 /\ code_part[1] \in HashToks

\* for name, pattern in MACRO_PATTERNS.items(): ...   (lines 99-118)
ArduinoMatch(code_part) ==
    SelectSeq(BANNED_MACROS,
              LAMBDA name :
                  /\ Has(code_part, MacroToks(name))
                  /\ ~Has(code_part, ScopedEnumToks)
                  /\ ~(Len(code_part) > 0 /\ code_part[1] \in EnumMemberToks))

\* One iteration of ArduinoMacroUsageChecker.check_file_content's loop (the
\* checker reads no suppression marker).
ArduinoStep(st, line) ==
    LET ct  == CommentTrack(st.in_multiline_comment, line)
        st1 == [st EXCEPT !.in_multiline_comment = ct.flag]
        code_part == CodePart(line)
    IN  IF \/ ct.skip
           \/ StartsWithLineComment(line)
           \/ PREPROCESSOR_PATTERN(code_part)
        THEN Result(st1, << >>)
        ELSE Result(st1, ArduinoMatch(code_part))

---------------------------------------------------------------------------
(* The loop body of check_file_content, by checker *)

Step(rule, st, line, hash_seed) ==
    CASE rule = "alloc"   -> AllocStep(st, line)
      [] rule = "using"   -> UsingStep(st, line)
      [] rule = "ctype"   -> CtypeStep(st, line, hash_seed)
      [] rule = "std"     -> StdStep(st, line)
      [] rule = "span"    -> SpanStep(st, line)
      [] rule = "arduino" -> ArduinoStep(st, line)

\* The checker's own comment flag.
InComment(rule, st) ==
    IF rule = "using" THEN st.in_block_comment ELSE st.in_multiline_comment

---------------------------------------------------------------------------
(* The lines a scanned file is made of, by rule *)

\* Comment-only lines, common to every rule.
CommentLines ==
    { << "/*" >>, << "*/" >>, << "/*", "*/" >>, << "*/", "/*" >>,
      << "/*", "*/", "/*" >>, << "//" >>, << "//", "/*" >> }

\* A token b of the rule's banned pattern in the comment and marker
\* contexts the checkers distinguish.
Contexts(rule, b) ==
    { << b >>, << b, "//" >>, << b, MarkerOk(rule) >>,
      << b, MarkerOkay(rule) >>, << b, "/*", "*/" >>, << b, "/*" >>,
      << "*/", b >>, << "//", b >>, << b, "//", "/*" >> }

Singles(toks) == { << t >> : t \in toks }

AllocLines ==
    CommentLines \cup Contexts("alloc", "new Foo()")
    \cup Singles({"x;", "delete p;", "malloc(10)", "calloc(1, 2)", "free(p)",
                  "fl::malloc(10)", "p.malloc(10)", "fl::free(p)",
                  "\"new Foo\""})
    \cup { << "operator new", "new Foo()" >>, << "x;", "= delete;" >>,
           << "operator delete", "delete p;" >>,
           << "free(p)", MarkerOk("alloc") >>,
           << "calloc(1, 2)", "malloc(10)" >>,
           << "new Foo()", "free(p)" >> }

UsingLines ==
    CommentLines \cup Contexts("using", "using X::Y;")
    \cup Singles({"x;", "using namespace X;", "using A = B::C;",
                  "namespace a {", "namespace {", "extern \"C\" {",
                  "class X {", "void f() {", "}", "#if X {"})
    \cup { << "namespace a {", "namespace a {" >>, << "}", "class X {" >>,
           << "class X {", "/*", "*/" >>, << "using X::Y;", "}" >>,
           << "namespace a {", "using X::Y;", "}" >>,
           << "using X::Y;", "int a = 1;" >>, << "x;", "'}'" >>,
           << "using A = B::C;", "//" >>,
           << "void f() {", MarkerOk("using") >> }

CtypeLines ==
    CommentLines \cup Contexts("ctype", "strlen(a)")
    \cup Singles({"x;", "memcmp(b, c, n)", "fl::strlen(a)", "::strlen(a)",
                  "namespace fl {", "namespace a {", "{", "}"})
    \cup { << "strlen(a)", "memcmp(b, c, n)" >>,
           << "fl::strlen(a)", "memcmp(b, c, n)" >>,
           << "fl::strlen(a)", "strlen(a)" >>,
           << "}", "strlen(a)" >>, << "x;", "'}'" >> }

StdLines ==
    CommentLines \cup Contexts("std", "std::vector<int> v;")
    \cup Singles({"x;", "std::memory_order_acquire", "\"std::x\""})
    \cup { << "std::memory_order_acquire", "std::vector<int> v;" >> }

SpanLines ==
    CommentLines \cup Contexts("span", "span<T>(v.data(), v.size())")
    \cup Singles({"x;", "span<T>(v)"})

ArduinoLines ==
    CommentLines \cup Contexts("arduino", "pinMode(1, INPUT);")
    \cup Singles({"x;", "pinMode(2, OUTPUT);", "E::DEFAULT", "DEFAULT = 0,",
                  "#define INPUT 0"})
    \cup { << "pinMode(1, INPUT);", "pinMode(2, OUTPUT);" >>,
           << "pinMode(1, INPUT);", "E::DEFAULT" >> }

Lines(rule) ==
    CASE rule = "alloc"   -> AllocLines
      [] rule = "using"   -> UsingLines
      [] rule = "ctype"   -> CtypeLines
      [] rule = "std"     -> StdLines
      [] rule = "span"    -> SpanLines
      [] rule = "arduino" -> ArduinoLines

---------------------------------------------------------------------------
(* What the text of the file is, read as C++: the yardstick the properties
   below measure the checkers against.  A "/*" opens a block comment unless
   it stands in a comment or a literal, a "*/" closes it, "//" comments out
   the rest of the line, and every brace of the code opens or closes the
   scope its opener names. *)

TextFresh ==
    [ inComment |-> FALSE,   \* inside a block comment at the end of the line
      openedAt  |-> 0,       \* number of the line that opened that comment
      scopes    |-> << >>,   \* the scopes open at the end of the line
      code      |-> << >> ]  \* the tokens of the line that are code

ScopeOf(t) ==
    CASE t = "namespace a {"   -> "namespace"
      [] t = "namespace fl {"  -> "fl"
      [] t = "namespace {"     -> "anonymous"
      [] t = "extern \"C\" {"  -> "extern"
      [] t = "class X {"       -> "class"
      [] t = "void f() {"      -> "function"
      [] OTHER                 -> "block"

RECURSIVE TextWalk(_, _, _)
TextWalk(r, line, n) ==
    IF line = << >> THEN r
    ELSE LET t == Head(line) IN
         IF r.inComment
         THEN TextWalk(IF t \in BlockCloseToks
                       THEN [r EXCEPT !.inComment = FALSE, !.openedAt = 0]
                       ELSE r,
                       Tail(line), n)
         ELSE IF t \in SlashSlashToks THEN r
         ELSE IF t \in BlockOpenToks
         THEN TextWalk([r EXCEPT !.inComment = TRUE, !.openedAt = n],
                       Tail(line), n)
         ELSE IF t \in StringToks \cup CharToks
         THEN TextWalk(r, Tail(line), n)
         ELSE LET scopes ==
                      IF t \in OpenBraceToks THEN Append(r.scopes, ScopeOf(t))
                      ELSE IF t \in CloseBraceToks /\ r.scopes # << >>
                      THEN Prefix(r.scopes, Len(r.scopes) - 1)
                      ELSE r.scopes
              IN  TextWalk([r EXCEPT !.scopes = scopes,
                                     !.code = Append(@, t)], Tail(line), n)

\* The text state after line number n.
TextStep(r, line, n) == TextWalk([r EXCEPT !.code = << >>], line, n)

---------------------------------------------------------------------------
(* The state machine *)

VARIABLES
    rule,             \* the checker class of the instance
    hash_seed,        \* the string-hash salt of the interpreter process
    self_violations,  \* self.violations: path -> list of (line, message)
    limits,           \* file length and number of scans of this run
    scans,            \* calls of check_file_content made so far
    latest,           \* path -> what the scans of the path built: the list
                      \* of the latest one, and the latest non-empty list
    pc,               \* "idle", or the loop position of the running call
    path,             \* file_content.path
    line_number,
    line,             \* the line the body is run on
    st,               \* the scan state after the body
    prev,             \* the scan state before the body
    violations,       \* the local list of the running call
    text,             \* the text state after the line
    textPrev,         \* the text state before the line
    twin,             \* a second instance of the checker, scanning in step
    build_dir,        \* build_dir.exists()
    now,              \* the time stamp a file written now is given
    build_ninja,      \* <build_dir>/build.ninja: exists, mtime
    registered,       \* the tests meson has registered, in order
    reconfigures,     \* meson reconfigures so far
    cache,            \* .meson_introspect_tests_cache.json
    marker,           \* .intro_corruption_detected exists
    answer,           \* what the latest get_fuzzy_test_candidates did
    mode,             \* the validation entry point that is running
    vpc,              \* its position
    original_ssid,    \* wifi.get_current_ssid() when it was entered
    client,           \* the local `client`: "None", or the RpcClient
    host_server,      \* the _HostHttpServer of the net-client flow
    test,             \* the HTTP test that is running
    tests_failed,
    returning,        \* the value of the return statement reached, or -1
    exit,             \* how the entry point was left
    seen              \* what has happened during the run

lintVars == << rule, hash_seed, self_violations, limits, scans, latest, pc,
               path, line_number, line, st, prev, violations, text, textPrev,
               twin >>

discVars == << build_dir, now, build_ninja, registered, reconfigures, cache,
               marker, answer >>

valVars == << mode, vpc, original_ssid, client, host_server, test,
              tests_failed, returning, exit, seen >>

otherVars == << discVars, valVars >>

vars == << lintVars, discVars, valVars >>

EmptyMap == [p \in {} |-> << >>]

NoCache == [exists |-> FALSE, mtime |-> 0, format |-> "names",
            names |-> << >>, written |-> 0]

NoAnswer == [source |-> "none", test_name |-> "", candidates |-> << >>,
             written |-> 0, asked |-> 0, registered |-> << >>]

NotLeft == [code |-> -1, raised |-> "none"]

NothingSeen ==
    [restores |-> 0, stop_sent |-> FALSE, uploaded |-> FALSE,
     setup_failed |-> FALSE, interrupted |-> FALSE, errored |-> FALSE]

\* No validation entry point has been called.
NoValidation ==
    /\ mode = "none"
    /\ vpc = "idle"
    /\ original_ssid = "None"
    /\ client = "None"
    /\ host_server = "None"
    /\ test = 0
    /\ tests_failed = 0
    /\ returning = -1
    /\ exit = NotLeft
    /\ seen = NothingSeen

\* The linters touch no build directory.
NoBuildDir ==
    /\ build_dir = FALSE
    /\ now = 0
    /\ build_ninja = [exists |-> FALSE, mtime |-> 0]
    /\ registered = << >>
    /\ reconfigures = 0
    /\ cache = NoCache
    /\ marker = FALSE
    /\ answer = NoAnswer

\* "rerun": the same content scanned by the same checker in a process of
\* its own.  "unmarked": the same file but for one line, whose suppression
\* marker is an ordinary comment.  "fresh": the same content scanned by an
\* instance of the same process that has scanned nothing before.
TwinKinds == {"rerun", "unmarked"}

Unmark(l) == [i \in 1..Len(l) |-> IF l[i] \in MarkerToks THEN "//" ELSE l[i]]

TwinFresh(kind, seed) ==
    [kind |-> kind, hash_seed |-> seed, line |-> << >>, st |-> FreshState,
     violations |-> << >>, diff |-> 0]

Seeds(r) == IF r = "ctype" THEN {0, 1} ELSE {0}

InitWith(rules, kinds, lim) ==
    /\ rule \in rules
    /\ hash_seed \in Seeds(rule)
    /\ self_violations = EmptyMap
    /\ limits = lim
    /\ scans = 0
    /\ latest = EmptyMap
    /\ pc = "idle"
    /\ path = "none"
    /\ line_number = 0
    /\ line = << >>
    /\ st = FreshState
    /\ prev = FreshState
    /\ violations = << >>
    /\ text = TextFresh
    /\ textPrev = TextFresh
    /\ \E k \in kinds :
           \E s \in (IF k = "rerun" THEN Seeds(rule) ELSE {hash_seed}) :
               twin = TwinFresh(k, s)

Scanned(h, p, list) ==
    [q \in DOMAIN h \cup {p} |->
        IF q # p THEN h[q]
        ELSE [last  |-> list,
              found |-> IF list # << >> THEN list
                        ELSE IF p \in DOMAIN h THEN h[p].found ELSE << >>]]

\* check_file_content entered with the scan state of the call before.
BeginScanStale(p, mentions_span) ==
    /\ pc = "idle"
    /\ scans < limits.scans
    /\ path' = p
    /\ line_number' = 0
    /\ line' = << >>
    /\ st' = st
    /\ prev' = st
    /\ violations' = << >>
    /\ text' = TextFresh
    /\ textPrev' = TextFresh
    /\ twin' = TwinFresh(twin.kind, twin.hash_seed)
    /\ IF rule = "span" /\ ~mentions_span
       THEN /\ pc' = "idle"
            /\ scans' = scans + 1
            /\ latest' = Scanned(latest, p, << >>)
       ELSE /\ pc' = "loop"
            /\ UNCHANGED << scans, latest >>
    /\ UNCHANGED << rule, hash_seed, self_violations, limits >>
    /\ UNCHANGED otherVars

\* check_file_content is entered: fresh locals.  The span checker returns
\* at once for a file whose text mentions no span.
BeginScan(p, mentions_span) ==
    /\ pc = "idle"
    /\ scans < limits.scans
    /\ path' = p
    /\ line_number' = 0
    /\ line' = << >>
    /\ st' = FreshState
    /\ prev' = FreshState
    /\ violations' = << >>
    /\ text' = TextFresh
    /\ textPrev' = TextFresh
    /\ twin' = TwinFresh(twin.kind, twin.hash_seed)
    /\ IF rule = "span" /\ ~mentions_span
       THEN /\ pc' = "idle"
            /\ scans' = scans + 1
            /\ latest' = Scanned(latest, p, << >>)
       ELSE /\ pc' = "loop"
            /\ UNCHANGED << scans, latest >>
    /\ UNCHANGED << rule, hash_seed, self_violations, limits >>
    /\ UNCHANGED otherVars

TwinLines(l) ==
    IF twin.kind = "unmarked" /\ twin.diff = 0 /\ Has(l, MarkerToks)
    THEN {l, Unmark(l)}
    ELSE {l}

Numbered(n, out) == [i \in 1..Len(out) |-> << n, out[i] >>]

\* for line_number, line in enumerate(lines, 1): one iteration, the loop
\* body run on the next line l of the file (tl in the twin's file).
ScanLine(l, tl) ==
    /\ pc = "loop"
    /\ line_number < limits.lines
    /\ line' = l
    /\ line_number' = line_number + 1
    /\ LET r  == Step(rule, st, l, hash_seed)
           tr == Step(rule, twin.st, tl, twin.hash_seed)
       IN  /\ st' = r.st
           /\ violations' = violations \o Numbered(line_number + 1, r.out)
           /\ twin' = [twin EXCEPT
                         !.line = tl,
                         !.diff = IF tl # l THEN line_number + 1 ELSE @,
                         !.st = tr.st,
                         !.violations =
                             @ \o Numbered(line_number + 1, tr.out)]
    /\ prev' = st
    /\ text' = TextStep(text, l, line_number + 1)
    /\ textPrev' = text
    /\ pc' = "next"
    /\ UNCHANGED << rule, hash_seed, self_violations, limits, scans, latest,
                    path >>
    /\ UNCHANGED otherVars

\* The end of the iteration (also by `continue`): on to the next line.
Advance ==
    /\ pc = "next"
    /\ pc' = "loop"
    /\ line' = << >>
    /\ prev' = FreshState
    /\ textPrev' = TextFresh
    /\ text' = [text EXCEPT !.code = << >>]
    /\ twin' = [twin EXCEPT !.line = << >>]
    /\ UNCHANGED << rule, hash_seed, self_violations, limits, scans, latest,
                    path, line_number, st, violations >>
    /\ UNCHANGED otherVars

\* After the last line:  if violations: self.violations[path] = violations
StoreAlways(map, p, list) ==
    [q \in DOMAIN map \cup {p} |-> IF q = p THEN list ELSE map[q]]

Store(map, p, list) ==
    IF list # << >>
    THEN [q \in DOMAIN map \cup {p} |-> IF q = p THEN list ELSE map[q]]
    ELSE map

EndScan ==
    /\ pc = "loop"
    /\ self_violations' = Store(self_violations, path, violations)
    /\ latest' = Scanned(latest, path, violations)
    /\ scans' = scans + 1
    /\ pc' = "idle"
    /\ UNCHANGED << rule, hash_seed, limits, path, line_number, line, st,
                    prev, violations, text, textPrev, twin >>
    /\ UNCHANGED otherVars

Next ==
    \/ \E p \in Paths, m \in BOOLEAN : BeginScan(p, m)
    \/ \E l \in Lines(rule) : \E tl \in TwinLines(l) : ScanLine(l, tl)
    \/ Advance
    \/ EndScan

\* One file scanned by one instance of any of the six checkers.
Init ==
    /\ InitWith(Rules, TwinKinds, [lines |-> MaxLines, scans |-> 1])
    /\ NoBuildDir
    /\ NoValidation

Spec == Init /\ [][Next]_vars

\* Several files, or one file again, scanned by one instance.
MaxMapLines == 1

InitMap ==
    /\ InitWith({"alloc", "span"}, {"rerun"},
                [lines |-> MaxMapLines, scans |-> MaxScans])
    /\ NoBuildDir
    /\ NoValidation

SpecMap == InitMap /\ [][Next]_vars

\* Several one-line files scanned one after the other by one instance, next
\* to a fresh instance: one line is enough to leave a comment or a brace
\* open behind, and to be reported.
InitFiles ==
    /\ InitWith(Rules, {"fresh"}, [lines |-> 1, scans |-> MaxScans])
    /\ NoBuildDir
    /\ NoValidation

SpecFiles == InitFiles /\ [][Next]_vars

---------------------------------------------------------------------------
(* Test discovery: ci/meson/test_discovery.py *)

MaxTime == 2
MaxReconfigures == 2

\* The test lists a meson.build of the project may register; a
\* registration may carry an empty name.
RegisteredLists ==
    { << "fl_async", "fl_math" >>,
      << "fl_math", "", "fl_Async_pool", "fl_async" >> }

TestNames == {"ASYNC", "math"}

\* The names in use left as they are spelt.
lowerless ==
    [n \in UNION {{l[i] : i \in 1..Len(l)} : l \in RegisteredLists}
            \cup TestNames |-> n]

\* str.lower() on the names in use.
lower ==
    [n \in UNION {{l[i] : i \in 1..Len(l)} : l \in RegisteredLists}
            \cup TestNames |->
        CASE n = "fl_Async_pool" -> "fl_async_pool"
          [] n = "ASYNC" -> "async"
          [] OTHER -> n]

\* a in b, on lower-case strings.
Within(a, b) ==
    CASE b = "fl_async" -> a \in {"async"}
      [] b = "fl_async_pool" -> a \in {"async"}
      [] b = "fl_math" -> a \in {"math"}
      [] OTHER -> FALSE

\* [t.get("name", "") for t in all_tests if t.get("name")]
RECURSIVE IntrospectNames(_)
IntrospectNames(all_tests) ==
    IF all_tests = << >> THEN << >>
    ELSE (IF Head(all_tests) # "" THEN << Head(all_tests) >> ELSE << >>)
             \o IntrospectNames(Tail(all_tests))

RECURSIVE Candidates(_, _)
Candidates(test_names, test_name) ==
    IF test_names = << >> THEN << >>
    ELSE LET rest == Candidates(Tail(test_names), test_name)
         IN  IF Within(lower[test_name], lower[Head(test_names)])
             THEN << Head(test_names) >> \o rest
             ELSE rest

\* The valid cached names, or "None" on miss or error.
\* read_ok: stat and read_text raise no OSError.
_load_introspect_tests_cache(read_ok) ==
    IF ~cache.exists \/ ~build_ninja.exists THEN "None"
    ELSE IF ~read_ok THEN "None"
    ELSE IF cache.mtime < build_ninja.mtime THEN "None"
    ELSE IF cache.format = "names" THEN cache.names
    ELSE "None"

\* write_text; an OSError is swallowed and the file is as it was.
_save_introspect_tests_cache(test_names, write_ok) ==
    IF write_ok
    THEN [exists |-> TRUE, mtime |-> now, format |-> "names",
          names |-> test_names, written |-> reconfigures]
    ELSE cache

\* What the meson introspect subprocess does: exit code 0 and the JSON
\* list of the tests ("ok"); a non-zero exit code, with or without one of
\* the missing-intro-file patterns in its output; subprocess.run raises
\* (SubprocessError, OSError) or times out; exit code 0 and output that is
\* no JSON ("bad_json"), or JSON that is no list of objects ("odd_json").
IntrospectOutcomes ==
    {"ok", "exit_missing_intro", "exit_other", "subprocess_error",
     "timeout", "bad_json", "odd_json"}

\* The marker is touched on every non-zero exit code.
TouchesMarkerOnAnyExit(outcome, io_ok) ==
    outcome \in {"exit_missing_intro", "exit_other"} /\ io_ok

\* intro_corruption_marker.touch(): on a non-zero exit code whose output
\* holds a missing-intro-file pattern; an OSError of touch() is swallowed.
TouchesMarker(outcome, io_ok) ==
    outcome = "exit_missing_intro" /\ io_ok

Returned(source, test_name, names, written) ==
    [source |-> source, test_name |-> test_name,
     candidates |-> Candidates(names, test_name), written |-> written,
     asked |-> reconfigures, registered |-> registered]

\* One call of get_fuzzy_test_candidates(build_dir, test_name).
\* outcome: what the meson introspect subprocess does if it is run (the
\* AttributeError or TypeError of "odd_json" is not caught: the call
\* raises);
\* io_ok: the file operation of the call (cache read, cache write or
\* marker touch) raises no OSError.
Query(test_name, outcome, io_ok) ==
    /\ IF ~build_dir
       THEN /\ answer' = Returned("no_build_dir", test_name, << >>, 0)
            /\ UNCHANGED << cache, marker >>
       ELSE LET test_names == _load_introspect_tests_cache(io_ok)
            IN  IF test_names # "None"
                THEN /\ answer' = Returned("cache", test_name, test_names,
                                           cache.written)
                     /\ UNCHANGED << cache, marker >>
                ELSE IF outcome = "ok"
                THEN /\ cache' = _save_introspect_tests_cache(
                                     IntrospectNames(registered), io_ok)
                     /\ answer' = Returned("introspect", test_name,
                                           IntrospectNames(registered),
                                           reconfigures)
                     /\ UNCHANGED marker
                ELSE /\ marker' = (marker \/ TouchesMarker(outcome, io_ok))
                     /\ answer' = Returned(IF outcome = "odd_json"
                                           THEN "raised" ELSE outcome,
                                           test_name, << >>, 0)
                     /\ UNCHANGED cache
    /\ UNCHANGED << build_dir, now, build_ninja, registered, reconfigures >>
    /\ UNCHANGED << lintVars, valVars >>

\* meson setup or reconfigure: build.ninja is rewritten and the
\* registered test list is whatever meson.build says now.
Reconfigure(tests) ==
    /\ reconfigures < MaxReconfigures
    /\ build_dir' = TRUE
    /\ build_ninja' = [exists |-> TRUE, mtime |-> now]
    /\ registered' = tests
    /\ reconfigures' = reconfigures + 1
    /\ UNCHANGED << now, cache, marker, answer >>
    /\ UNCHANGED << lintVars, valVars >>

\* The file system's clock moves to its next time stamp.
Tick ==
    /\ now < MaxTime
    /\ now' = now + 1
    /\ UNCHANGED << build_dir, build_ninja, registered, reconfigures, cache,
                    marker, answer >>
    /\ UNCHANGED << lintVars, valVars >>

NextDiscovery ==
    \/ \E t \in TestNames, o \in IntrospectOutcomes, ok \in BOOLEAN :
           Query(t, o, ok)
    \/ \E tests \in RegisteredLists : Reconfigure(tests)
    \/ Tick

\* A build directory that is absent, or configured with no cache yet, or
\* configured with the cache file of an earlier version of the helper.
InitDiscovery ==
    /\ InitWith({"alloc"}, {"rerun"}, [lines |-> 0, scans |-> 0])
    /\ NoValidation
    /\ now = 0
    /\ reconfigures = 0
    /\ marker = FALSE
    /\ answer = NoAnswer
    /\ build_dir \in BOOLEAN
    /\ build_ninja = [exists |-> build_dir, mtime |-> 0]
    /\ registered \in (IF build_dir THEN RegisteredLists ELSE {<< >>})
    /\ cache \in (IF build_dir
                  THEN {NoCache, [NoCache EXCEPT !.exists = TRUE,
                                                 !.format = "dict"]}
                  ELSE {NoCache})

SpecDiscovery == InitDiscovery /\ [][NextDiscovery]_vars

---------------------------------------------------------------------------
(* Hardware validation: ci/validate_ota.py, ci/validate_net.py *)

\* The HTTP tests the flows make before the summary (the OTA upload is a
\* step of its own).
OtaHttpTests == 5
NetServerTests == 4

Modes == {"ota", "net_server", "net_client"}

HttpTests(m) == IF m = "ota" THEN OtaHttpTests ELSE NetServerTests

\* A step that talks to the device, the network or the host succeeds
\* ("ok"), is refused (a response that reports no success, an unexpected
\* status code, a False), or raises.
Raises == {"Exception", "RpcTimeoutError", "KeyboardInterrupt"}

\* except KeyboardInterrupt: handle_keyboard_interrupt_properly();
\* return 130.  except RpcTimeoutError, except Exception: return 1.
\* handle_keyboard_interrupt_properly returns to its caller.
Handler(e) == IF e = "KeyboardInterrupt" THEN 130 ELSE 1

\* An exception that no handler of a single test takes, or an interrupt.
Note(s, o) ==
    [s EXCEPT !.interrupted = @ \/ (o = "KeyboardInterrupt"),
              !.errored = @ \/ (o \in {"Exception", "RpcTimeoutError"})]

\* A return statement, or an exception on its way to the handlers of the
\* entry point: the finally block is next.
Return(code) ==
    /\ returning' = code
    /\ vpc' = "cleanup_stop"

Raise(e) == Return(Handler(e))

\* The entry point is called; the SSID of the host is read.
StartValidation(m, ssid) ==
    /\ vpc = "idle"
    /\ mode' = m
    /\ original_ssid' = ssid
    /\ client' = "None"
    /\ vpc' = "connect"
    /\ UNCHANGED << host_server, test, tests_failed, returning, exit, seen >>
    /\ UNCHANGED << lintVars, discVars >>

\* client = RpcClient(...); await client.connect(...)
Connect(o) ==
    /\ vpc = "connect"
    /\ client' = "first"
    /\ seen' = Note(seen, o)
    /\ IF o = "ok"
       THEN /\ vpc' = "start_rpc"
            /\ UNCHANGED returning
       ELSE Raise(o)
    /\ UNCHANGED << mode, original_ssid, host_server, test, tests_failed,
                    exit >>
    /\ UNCHANGED << lintVars, discVars >>

\* Step 1: startOta, startNetServer or startNetClient.
StartRpc(o) ==
    /\ vpc = "start_rpc"
    /\ seen' = [Note(seen, o) EXCEPT !.setup_failed = @ \/ (o = "refused")]
    /\ IF o = "ok"
       THEN /\ vpc' = "wifi_connect"
            /\ UNCHANGED returning
       ELSE IF o = "refused" THEN Return(1) ELSE Raise(o)
    /\ UNCHANGED << mode, original_ssid, client, host_server, test,
                    tests_failed, exit >>
    /\ UNCHANGED << lintVars, discVars >>

\* Step 2: wifi.connect(ssid, password); False also when the command of
\* the platform fails with an OSError.
WifiConnect(o) ==
    /\ vpc = "wifi_connect"
    /\ seen' = [Note(seen, o) EXCEPT !.setup_failed = @ \/ (o = "refused")]
    /\ IF o = "ok"
       THEN /\ vpc' = IF mode = "net_client" THEN "host_start"
                      ELSE "http_test"
            /\ test' = IF mode = "net_client" THEN 0 ELSE 1
            /\ UNCHANGED returning
       ELSE /\ IF o = "refused" THEN Return(1) ELSE Raise(o)
            /\ UNCHANGED test
    /\ UNCHANGED << mode, original_ssid, client, host_server, tests_failed,
                    exit >>
    /\ UNCHANGED << lintVars, discVars >>

\* One HTTP test of the OTA or net-server flow: passed, failed (also by
\* httpx.HTTPError), or left by another exception.
HttpTest(o) ==
    /\ vpc = "http_test"
    /\ IF o \in {"ok", "refused", "HTTPError"}
       THEN /\ tests_failed' = IF o = "ok" THEN tests_failed
                               ELSE tests_failed + 1
            /\ IF test < HttpTests(mode)
               THEN /\ test' = test + 1
                    /\ UNCHANGED vpc
               ELSE /\ vpc' = IF mode = "ota" THEN "upload" ELSE "summary"
                    /\ UNCHANGED test
            /\ UNCHANGED << returning, seen >>
       ELSE /\ Raise(o)
            /\ seen' = Note(seen, o)
            /\ UNCHANGED << test, tests_failed >>
    /\ UNCHANGED << mode, original_ssid, client, host_server, exit >>
    /\ UNCHANGED << lintVars, discVars >>

\* Test 6 of the OTA flow: skipped without a firmware file, else the
\* firmware is posted; status 200 means the device flashes and reboots.
Upload(o) ==
    /\ vpc = "upload"
    /\ IF o = "KeyboardInterrupt"
       THEN /\ Raise(o)
            /\ seen' = Note(seen, o)
            /\ UNCHANGED tests_failed
       ELSE /\ vpc' = IF o = "ok" THEN "close_after_upload" ELSE "summary"
            /\ tests_failed' = IF o \in {"ok", "skip"} THEN tests_failed
                               ELSE tests_failed + 1
            /\ seen' = [seen EXCEPT !.uploaded = @ \/ (o = "ok")]
            /\ UNCHANGED returning
    /\ UNCHANGED << mode, original_ssid, client, host_server, test, exit >>
    /\ UNCHANGED << lintVars, discVars >>

\* await client.close(); client = None; wifi.restore(original_ssid)
CloseAfterUpload(o) ==
    /\ vpc = "close_after_upload"
    /\ IF o = "ok"
       THEN /\ client' = "None"
            /\ seen' = [seen EXCEPT !.restores = @ + 1]
            /\ vpc' = "wait_port"
            /\ UNCHANGED << returning, tests_failed >>
       ELSE IF o = "KeyboardInterrupt"
       THEN /\ Raise(o)
            /\ seen' = Note(seen, o)
            /\ UNCHANGED << client, tests_failed >>
       ELSE /\ tests_failed' = tests_failed + 1
            /\ vpc' = "summary"
            /\ UNCHANGED << client, returning, seen >>
    /\ UNCHANGED << mode, original_ssid, host_server, test, exit >>
    /\ UNCHANGED << lintVars, discVars >>

\* The serial port is polled until it opens or the wait is over.
WaitPort(o) ==
    /\ vpc = "wait_port"
    /\ IF o = "KeyboardInterrupt"
       THEN /\ Raise(o)
            /\ seen' = Note(seen, o)
            /\ UNCHANGED tests_failed
       ELSE /\ vpc' = IF o = "ok" THEN "reconnect" ELSE "summary"
            /\ tests_failed' = IF o = "ok" THEN tests_failed
                               ELSE tests_failed + 1
            /\ UNCHANGED << returning, seen >>
    /\ UNCHANGED << mode, original_ssid, client, host_server, test, exit >>
    /\ UNCHANGED << lintVars, discVars >>

\* client = RpcClient(...); await client.connect(...) after the reboot.
Reconnect(o) ==
    /\ vpc = "reconnect"
    /\ client' = "second"
    /\ IF o = "KeyboardInterrupt"
       THEN /\ Raise(o)
            /\ seen' = Note(seen, o)
            /\ UNCHANGED tests_failed
       ELSE /\ vpc' = IF o = "ok" THEN "status_rpc" ELSE "summary"
            /\ tests_failed' = IF o = "ok" THEN tests_failed
                               ELSE tests_failed + 1
            /\ UNCHANGED << returning, seen >>
    /\ UNCHANGED << mode, original_ssid, host_server, test, exit >>
    /\ UNCHANGED << lintVars, discVars >>

\* status RPC to the rebooted device: ready, or a failed test.
StatusRpc(o) ==
    /\ vpc = "status_rpc"
    /\ IF o = "KeyboardInterrupt"
       THEN /\ Raise(o)
            /\ seen' = Note(seen, o)
            /\ UNCHANGED tests_failed
       ELSE /\ vpc' = "summary"
            /\ tests_failed' = IF o = "ok" THEN tests_failed
                               ELSE tests_failed + 1
            /\ UNCHANGED << returning, seen >>
    /\ UNCHANGED << mode, original_ssid, client, host_server, test, exit >>
    /\ UNCHANGED << lintVars, discVars >>

\* Step 3 of the net-client flow: host_server.start()
HostStart(o) ==
    /\ vpc = "host_start"
    /\ seen' = Note(seen, o)
    /\ IF o = "ok"
       THEN /\ host_server' = "started"
            /\ vpc' = "client_rpc"
            /\ UNCHANGED returning
       ELSE /\ Raise(o)
            /\ UNCHANGED host_server
    /\ UNCHANGED << mode, original_ssid, client, test, tests_failed, exit >>
    /\ UNCHANGED << lintVars, discVars >>

\* Step 4 of the net-client flow: runNetClientTest.  The device answers
\* with its own counts and a success flag ("ok": success is true), or
\* with something that is no dict ("malformed").
ClientRpc(o, failed) ==
    /\ vpc = "client_rpc"
    /\ IF o \in {"ok", "refused", "malformed", "RpcTimeoutError"}
       THEN /\ host_server' = "stopped"
            /\ tests_failed' = IF o \in {"ok", "refused"} THEN failed ELSE 0
            /\ Return(IF o = "ok" THEN 0 ELSE 1)
            /\ seen' = [Note(seen, o) EXCEPT
                          !.setup_failed = @ \/ (o = "malformed")]
       ELSE /\ Raise(o)
            /\ seen' = Note(seen, o)
            /\ UNCHANGED << host_server, tests_failed >>
    /\ UNCHANGED << mode, original_ssid, client, test, exit >>
    /\ UNCHANGED << lintVars, discVars >>

\* if tests_failed == 0: return 0  else: return 1
Summary ==
    /\ vpc = "summary"
    /\ Return(IF tests_failed = 0 THEN 0 ELSE 1)
    /\ UNCHANGED << mode, original_ssid, client, host_server, test,
                    tests_failed, exit, seen >>
    /\ UNCHANGED << lintVars, discVars >>

\* finally: if client: the stop RPC in a try that swallows what it
\* raises.  (The host_server local of run_net_validation is never
\* assigned, so its stop() is never called here.)
CleanupStop(o) ==
    /\ vpc = "cleanup_stop"
    /\ IF client = "None"
       THEN /\ o = "ok"
            /\ vpc' = "cleanup_restore"
            /\ UNCHANGED seen
       ELSE /\ vpc' = "cleanup_close"
            /\ seen' = [seen EXCEPT
                          !.stop_sent = TRUE,
                          !.interrupted = @ \/ (o = "KeyboardInterrupt")]
    /\ UNCHANGED << mode, original_ssid, client, host_server, test,
                    tests_failed, returning, exit >>
    /\ UNCHANGED << lintVars, discVars >>

\* finally: await client.close(), after the try.
CleanupClose(o) ==
    /\ vpc = "cleanup_close"
    /\ seen' = Note(seen, o)
    /\ IF o = "ok"
       THEN /\ vpc' = "cleanup_restore"
            /\ UNCHANGED exit
       ELSE /\ vpc' = "done"
            /\ exit' = [code |-> -1, raised |-> o]
    /\ UNCHANGED << mode, original_ssid, client, host_server, test,
                    tests_failed, returning >>
    /\ UNCHANGED << lintVars, discVars >>

\* finally: wifi.restore(original_ssid); then the function returns.
CleanupRestore ==
    /\ vpc = "cleanup_restore"
    /\ seen' = [seen EXCEPT !.restores = @ + 1]
    /\ exit' = [code |-> returning, raised |-> "none"]
    /\ vpc' = "done"
    /\ UNCHANGED << mode, original_ssid, client, host_server, test,
                    tests_failed, returning >>
    /\ UNCHANGED << lintVars, discVars >>

NextValidation ==
    \/ \E m \in Modes, ssid \in {"None", "home"} : StartValidation(m, ssid)
    \/ \E o \in {"ok"} \cup Raises : Connect(o)
    \/ \E o \in {"ok", "refused"} \cup Raises : StartRpc(o)
    \/ \E o \in {"ok", "refused", "Exception", "KeyboardInterrupt"} :
           WifiConnect(o)
    \/ \E o \in {"ok", "refused", "HTTPError", "Exception",
                 "KeyboardInterrupt"} : HttpTest(o)
    \/ \E o \in {"skip", "ok", "refused", "HTTPError", "Exception",
                 "KeyboardInterrupt"} : Upload(o)
    \/ \E o \in {"ok", "Exception", "KeyboardInterrupt"} : CloseAfterUpload(o)
    \/ \E o \in {"ok", "refused", "KeyboardInterrupt"} : WaitPort(o)
    \/ \E o \in {"ok"} \cup Raises : Reconnect(o)
    \/ \E o \in {"ok", "refused"} \cup Raises : StatusRpc(o)
    \/ \E o \in {"ok", "Exception", "KeyboardInterrupt"} : HostStart(o)
    \/ \E o \in {"ok", "refused", "malformed"} \cup Raises,
          failed \in 0..1 : ClientRpc(o, failed)
    \/ Summary
    \/ \E o \in {"ok", "Exception", "KeyboardInterrupt"} : CleanupStop(o)
    \/ \E o \in {"ok", "Exception", "KeyboardInterrupt"} : CleanupClose(o)
    \/ CleanupRestore

InitValidation ==
    /\ InitWith({"alloc"}, {"rerun"}, [lines |-> 0, scans |-> 0])
    /\ NoBuildDir
    /\ NoValidation

SpecValidation == InitValidation /\ [][NextValidation]_vars

---------------------------------------------------------------------------
(* Properties *)

\* The list holds an entry for line n.
Reported(list, n) == \E i \in 1..Len(list) : list[i][1] = n

\* The loop body has just run on `line`.
LineDone == pc = "next"

HasMarker(r, l) == Has(l, {MarkerOk(r), MarkerOkay(r)})

Without(l, S) == SelectSeq(l, LAMBDA t : t \notin S)

\* The line is a using-declaration or using-directive and nothing else but,
\* at most, an ordinary trailing comment.
UsingLineOnly(l) ==
    /\ Len(l) \in {1, 2}
    /\ l[1] \in UsingDeclToks
    /\ Len(l) = 2 => l[2] = "//"

\* C1: BareUsingChecker reports every unsuppressed line that is a
\* using-declaration or using-directive standing at file scope or enclosed
\* only by named namespace blocks.
C1_NamespaceScopeUsingReported ==
    ( /\ LineDone
      /\ rule = "using"
      /\ UsingLineOnly(line)
      /\ ~textPrev.inComment
      /\ \A i \in 1..Len(textPrev.scopes) : textPrev.scopes[i] = "namespace" )
    => Reported(violations, line_number)

\* C2: BareUsingChecker never reports a line that a class body, a function
\* body or an anonymous namespace encloses at any depth.
C2_LocalScopeUsingNeverReported ==
    ( /\ LineDone
      /\ rule = "using"
      /\ Reported(violations, line_number) )
    => \A i \in 1..Len(textPrev.scopes) :
           textPrev.scopes[i] \notin {"class", "function", "anonymous"}

\* C3: in every checker, no line between the line that opens a block
\* comment and the later line that closes it is reported.
C3_NoViolationInsideBlockComment ==
    ( /\ LineDone
      /\ textPrev.inComment
      /\ Has(line, BlockCloseToks) )
    => \A i \in 1..Len(violations) :
           ~( /\ textPrev.openedAt < violations[i][1]
              /\ violations[i][1] < line_number )

\* C4: a suppression marker on one line changes the report of that line
\* only: the file with the marker and the file without it are scanned into
\* the same scan state and the same violations on every other line.
C4_SuppressionLineLocal ==
    twin.kind = "unmarked" =>
        LET others == (1..limits.lines) \ {twin.diff}
        IN  /\ twin.st = st
            /\ Filter(twin.violations, others) = Filter(violations, others)

C4_Witness ==
    /\ twin.kind = "unmarked"
    /\ twin.diff > 0
    /\ line_number > twin.diff
    /\ Reported(twin.violations, twin.diff)
    /\ ~Reported(violations, twin.diff)
    /\ Reported(violations, line_number)

\* C5 as stated: for every rule, either spelling of the rule's marker on a
\* line keeps the line out of the violations.
C5_BothSpellingsEveryRule ==
    (LineDone /\ HasMarker(rule, line)) => ~Reported(violations, line_number)

\* The spellings each checker reads.
Honoured(r) ==
    CASE r \in {"alloc", "using", "ctype"} -> {MarkerOk(r), MarkerOkay(r)}
      [] r = "std"     -> {MarkerOkay(r)}
      [] r = "span"    -> {MarkerOk(r)}
      [] r = "arduino" -> {}

\* C5 amended: both spellings suppress in the bare-allocation, bare-using
\* and ctype checkers; the std checker reads "// okay std namespace" only,
\* the span checker "// ok span from pointer" only, the Arduino checker none.
C5_HonouredSpellingsSuppress ==
    (LineDone /\ Has(line, Honoured(rule)))
        => ~Reported(violations, line_number)

C5_Witness ==
    /\ LineDone
    /\ rule = "alloc"
    /\ Has(line, {MarkerOkay(rule)})
    /\ twin.kind = "unmarked"
    /\ twin.diff = line_number
    /\ Reported(twin.violations, line_number)
    /\ ~Reported(violations, line_number)

\* What the bare-allocation rule bans, and what it lets pass.
AllocBannedToks == NewToks \cup DeleteToks \cup MallocToks \cup FreeToks
AllocExemptToks == OperatorToks \cup EqDeleteToks

\* C6 as stated: BareAllocationChecker reports a line if and only if its
\* code, outside comments and literals, holds new <Type>, delete or an
\* unqualified malloc/calloc/realloc/free call, the line has no marker and
\* is no operator new/delete or = delete declaration.
C6_ReportedIffBareAllocation ==
    (LineDone /\ rule = "alloc") =>
        ( Reported(violations, line_number)
          <=> ( /\ Has(text.code, AllocBannedToks)
                /\ ~HasMarker("alloc", line)
                /\ ~Has(text.code, AllocExemptToks) ) )

\* C7: BareUsingChecker never reports a type-alias declaration, at any
\* scope.
C7_AliasNeverReported ==
    ( /\ LineDone
      /\ rule = "using"
      /\ Len(line) > 0
      /\ line[1] \in AliasToks )
    => ~Reported(violations, line_number)

C7_Witness ==
    /\ LineDone
    /\ rule = "using"
    /\ line = << "using A = B::C;" >>
    /\ ~prev.in_block_comment
    /\ prev.scope_stack = << "namespace" >>
    /\ textPrev.scopes = << "namespace" >>
    /\ ~Reported(violations, line_number)

\* Every "/*" of the line stands after a "//".
BlockOpenOnlyInLineComment(l) ==
    /\ Has(l, BlockOpenToks)
    /\ Has(l, SlashSlashToks)
    /\ FirstIdx(l, SlashSlashToks) < FirstIdx(l, BlockOpenToks)

\* C8: in BareUsingChecker a "/*" that stands only after a "//" starts no
\* block comment: the flag stays false and the line is scanned as the same
\* line without the "/*" is, scope tracking and report included.
C8_BlockOpenInLineCommentIgnored ==
    ( /\ LineDone
      /\ rule = "using"
      /\ ~prev.in_block_comment
      /\ BlockOpenOnlyInLineComment(line) )
    => LET plain == UsingStep(prev, Without(line, BlockOpenToks))
       IN  /\ ~st.in_block_comment
           /\ st = plain.st
           /\ Reported(violations, line_number) <=> (plain.out # << >>)

C8_Witness ==
    /\ LineDone
    /\ rule = "using"
    /\ ~prev.in_block_comment
    /\ line = << "using X::Y;", "//", "/*" >>
    /\ ~st.in_block_comment
    /\ Reported(violations, line_number)

\* C9: the same checker run twice on the same content builds the same
\* violations list, entry by entry.
C9_RerunIdentical == twin.kind = "rerun" => twin.violations = violations

\* C10 as stated: a path is a key of self.violations only if the latest
\* scan of the path found at least one violation.
C10_KeyOnlyIfLatestScanFound ==
    \A p \in DOMAIN self_violations :
        p \in DOMAIN latest /\ latest[p].last # << >>

\* C10 amended: a path is a key exactly if some scan of it found at least
\* one violation, and its entry is the list of the latest scan that did.
C10_KeyIffSomeScanFound ==
    /\ DOMAIN self_violations =
           { p \in DOMAIN latest : latest[p].found # << >> }
    /\ \A p \in DOMAIN self_violations :
           self_violations[p] = latest[p].found

C10_Witness ==
    /\ pc = "idle"
    /\ scans = 2
    /\ DOMAIN latest = Paths
    /\ \E p \in Paths :
           /\ latest[p].last = << >>
           /\ p \notin DOMAIN self_violations
    /\ \E p \in Paths : p \in DOMAIN self_violations

\* C11 as stated: every checker's violations list holds at most one entry
\* for any line number.
C11_OneViolationPerLine ==
    \A i, j \in 1..Len(violations) :
        violations[i][1] = violations[j][1] => i = j

\* C11 amended: the bare-allocation, bare-using, std and span checkers hold
\* at most one entry per line; the ctype and Arduino checkers hold at most
\* one entry per line and function or macro name.
C11_OnePerLineOrPerName ==
    \A i, j \in 1..Len(violations) :
        /\ violations[i] = violations[j] => i = j
        /\ ( /\ rule \in {"alloc", "using", "std", "span"}
             /\ violations[i][1] = violations[j][1] ) => i = j

C11_Witness ==
    /\ LineDone
    /\ rule = "alloc"
    /\ line = << "new Foo()", "free(p)" >>
    /\ prev.in_multiline_comment = FALSE
    /\ Len(violations) = 1
    /\ violations[1] = << line_number, "new" >>

\* The tokens a rule looks for or lets pass, and the line with each of them
\* replaced by plain code and each marker by a plain comment.
RuleToks(r) ==
    CASE r = "alloc"   -> AllocBannedToks \cup AllocExemptToks \cup QualifiedToks
      [] r = "using"   -> UsingDeclToks \cup AliasToks
      [] r = "ctype"   -> UNION { PatternToks(f) : f \in CtypeFuncs }
      [] r = "std"     -> StdToks
      [] r = "span"    -> SpanPtrToks \cup {"span<T>(v)"}
      [] r = "arduino" ->
             (UNION { MacroToks(BANNED_MACROS[i]) : i \in 1..3 }) \ HashToks

Plain(r, l) ==
    [i \in 1..Len(l) |->
        IF l[i] \in RuleToks(r) THEN "x;"
        ELSE IF l[i] \in MarkerToks THEN "//"
        ELSE l[i]]

\* C12: the state a line leaves behind is the state the same line leaves
\* with its banned text, its exempting text and its marker taken out, and is
\* the same in every run over the same lines.
C12_RulesLeaveStateAlone ==
    /\ LineDone => st = Step(rule, prev, Plain(rule, line), hash_seed).st
    /\ twin.kind = "rerun" => twin.st = st

C12_Witness ==
    /\ LineDone
    /\ rule = "using"
    /\ line = << "using X::Y;", "}" >>
    /\ prev.scope_stack = << "namespace" >>
    /\ st.scope_stack = << >>
    /\ Reported(violations, line_number)

\* C13: a file scanned after other files by the same instance gets the scan
\* state and the violations a fresh instance gives it.
C13_FreshPerFile ==
    twin.kind = "fresh" => (twin.st = st /\ twin.violations = violations)

C13_Witness ==
    /\ twin.kind = "fresh"
    /\ rule = "using"
    /\ scans = 1
    /\ DOMAIN latest = {"src/fl/a.h"}
    /\ latest["src/fl/a.h"].last = << >>
    /\ path = "src/fl/b.h"
    /\ LineDone
    /\ line = << "using X::Y;" >>
    /\ Reported(violations, line_number)

ScopeKinds == {"namespace", "local"}

\* C14: every line leaves a well-formed scan state, whatever braces and
\* comments stand open or are closed once too often, and a "}" read on an
\* empty scope stack leaves the stack empty.
C14_ScanNeverRaises ==
    LineDone =>
        /\ st.scope_stack \in Seq(ScopeKinds)
        /\ st.in_block_comment \in BOOLEAN
        /\ st.in_multiline_comment \in BOOLEAN
        /\ st.brace_depth \in Int
        /\ st.fl_namespace_depth \in Int
        /\ st.brace_depth_at_fl_namespace \in Seq(Int)
        /\ \A i \in 1..Len(violations) : violations[i][1] \in 1..line_number
        /\ ( /\ rule = "using"
             /\ prev.scope_stack = << >>
             /\ OpenBraces(strip_strings_and_comments(line)) = 0 )
           => st.scope_stack = << >>

C14_Witness ==
    /\ LineDone
    /\ rule = "using"
    /\ line_number = 2
    /\ line = << "}" >>
    /\ ~prev.in_block_comment
    /\ prev.scope_stack = << >>
    /\ st.scope_stack = << >>

\* The kind the text gives a scope.
KindOf(scope) ==
    IF scope \in {"namespace", "fl", "extern"} THEN "namespace" ELSE "local"

\* C19: a line that opens several braces pushes, for each brace, the kind of
\* the opener that stands before that brace.
C19_EachBraceTakesItsOpenersKind ==
    ( /\ LineDone
      /\ rule = "using"
      /\ ~prev.in_block_comment
      /\ Len(line) >= 2
      /\ \A i \in 1..Len(line) : line[i] \in OpenBraceToks \ (StringToks \cup HashToks) )
    => st.scope_stack =
           prev.scope_stack \o [i \in 1..Len(line) |-> KindOf(ScopeOf(line[i]))]

\* C20: the brace of an extern "C" line is pushed as a namespace scope, and
\* a using-declaration directly inside the block is reported.
C20_ExternCIsNamespaceScope ==
    /\ ( /\ LineDone
         /\ rule = "using"
         /\ ~prev.in_block_comment
         /\ line = << "extern \"C\" {" >> )
       => st.scope_stack = Append(prev.scope_stack, "namespace")
    /\ ( /\ LineDone
         /\ rule = "using"
         /\ UsingLineOnly(line)
         /\ ~textPrev.inComment
         /\ textPrev.scopes = << "extern" >> )
       => Reported(violations, line_number)

\* C15: a query issued after a reconfigure never returns names taken from a
\* cache file written before that reconfigure: an answer from the cache
\* comes from a cache written under the configuration it is asked in.
C15_NoNamesFromBeforeReconfigure ==
    answer.source = "cache" => answer.written = answer.asked

Left == vpc = "done"

\* C16: once the original SSID has been read, every way of leaving
\* run_net_validation or run_ota_validation is preceded by a call of
\* wifi.restore(original_ssid).
C16_RestoreBeforeLeaving ==
    Left => seen.restores > 0

\* C17: after a successful OTA upload run_ota_validation sends no stopOta.
C17_NoStopOtaAfterUpload ==
    (mode = "ota" /\ seen.uploaded) => ~seen.stop_sent

\* C18: an entry point returns 0 only when no test was counted as failed
\* and no setup step failed; a failed test, a failed setup step, a timeout
\* or another exception yields 1, and a keyboard interrupt yields 130.
C18_ExitCodes ==
    Left =>
      /\ exit.raised = "none"
      /\ exit.code \in {0, 1, 130}
      /\ seen.interrupted => exit.code = 130
      /\ (~seen.interrupted
            /\ (tests_failed > 0 \/ seen.setup_failed \/ seen.errored))
         => exit.code = 1
      /\ exit.code = 0
         => (tests_failed = 0 /\ ~seen.setup_failed /\ ~seen.errored
             /\ ~seen.interrupted)

\* The braces of a cleaned line applied one by one in text order: a '{'
\* pushes the next of `kinds`, a '}' pops an entry if there is one.
RECURSIVE ApplyBraces(_, _, _)
ApplyBraces(stack, clean, kinds) ==
    IF clean = << >> THEN stack
    ELSE IF Head(clean) \in OpenBraceToks
    THEN ApplyBraces(Append(stack, Head(kinds)), Tail(clean), Tail(kinds))
    ELSE IF Head(clean) \in CloseBraceToks
    THEN ApplyBraces(IF stack = << >> THEN stack
                     ELSE Prefix(stack, Len(stack) - 1),
                     Tail(clean), kinds)
    ELSE ApplyBraces(stack, Tail(clean), kinds)

\* The loop body reached the brace counting of BareUsingChecker on `line`.
UsingCounted ==
    /\ LineDone
    /\ rule = "using"
    /\ ~prev.in_block_comment
    /\ ~Has(BlockStartText(line), BlockOpenToks)
    /\ ~RE_PREPROCESSOR(line)

\* C21: in BareUsingChecker the scope stack after a line is the stack
\* before it with the braces of the line applied one by one from left to
\* right, a closing brace before the opening brace that follows it.
C21_BracesAppliedLeftToRight ==
    UsingCounted =>
        LET clean == strip_strings_and_comments(line)
        IN  st.scope_stack =
                ApplyBraces(prev.scope_stack, clean, scope_types_to_push(clean))

\* C22: in BareUsingChecker a using-declaration is judged against the
\* scopes open where it stands, at the start of its line: a brace later on
\* the line does not change whether the line is reported.
C22_UsingJudgedWhereItStands ==
    ( /\ UsingCounted
      /\ RE_USING_DECL(strip_strings_and_comments(line))
      /\ ~RE_SUPPRESS(line) )
    => ( Reported(violations, line_number)
           <=> is_namespace_scope(prev.scope_stack) )

\* The state without its comment flags.
NoFlags(s) ==
    [s EXCEPT !.in_block_comment = FALSE, !.in_multiline_comment = FALSE]

\* The line has code and then opens a block comment that it does not
\* close: a "/*" that is not the first token, with no "//" before it and
\* no "*/" after it.
CodeThenBlockOpen(l) ==
    LET pos == FirstIdx(l, BlockOpenToks)
    IN  /\ pos > 1
        /\ ~Has(Prefix(l, pos - 1), SlashSlashToks \cup BlockCloseToks)
        /\ ~Has(Suffix(l, pos + 1), BlockCloseToks)

\* C23: on a line where a block comment opens after some code, the code
\* before the "/*" is processed as if the line ended there: as many
\* reports for the line and the same scope and brace state, in each of the
\* six checkers.
C23_CodeBeforeBlockCommentProcessed ==
    ( /\ LineDone
      /\ ~InComment(rule, prev)
      /\ CodeThenBlockOpen(line) )
    => LET code == Prefix(line, FirstIdx(line, BlockOpenToks) - 1)
           r    == Step(rule, prev, code, hash_seed)
       IN  /\ NoFlags(st) = NoFlags(r.st)
           /\ Len(Filter(violations, {line_number})) = Len(r.out)

\* The only "/*" of the line stands after a "//", and the line has no "*/".
BlockOpenAfterLineComment(l) ==
    /\ Has(l, BlockOpenToks)
    /\ ~Has(CodePart(l), BlockOpenToks)
    /\ ~Has(l, BlockCloseToks)

\* C24: in the bare-allocation, std, ctype, span and Arduino checkers a
\* "/*" that occurs only after a "//" opens no block comment: the
\* multi-line-comment flag stays false.
C24_LineCommentedBlockOpenKeepsFlag ==
    ( /\ LineDone
      /\ rule # "using"
      /\ ~prev.in_multiline_comment
      /\ BlockOpenAfterLineComment(line) )
    => ~st.in_multiline_comment

\* C25: in CtypeGlobalChecker every line from the one that opens
\* `namespace fl {` to the `}` that matches it is inside namespace fl and
\* reports nothing, and the namespace-fl depth is the number of namespace
\* fl blocks open in the text: it is back at its earlier value once the
\* matching `}` has been read.
C25_NamespaceFlUntilMatchingBrace ==
    ( /\ LineDone
      /\ rule = "ctype" )
    => /\ Has(text.scopes, {"fl"}) => ~Reported(violations, line_number)
       /\ ~text.inComment
             => st.fl_namespace_depth = Count(text.scopes, {"fl"})

\* C26: in every reachable scan state the brace depth is at least zero: a
\* `}` read at depth 0 leaves the depth at 0.
C26_BraceDepthNonNegative ==
    st.brace_depth >= 0

\* C27: in BareUsingChecker the braces of a preprocessor-directive line
\* push and pop scope-stack entries like those of any code line.
C27_PreprocessorBracesCounted ==
    ( /\ LineDone
      /\ rule = "using"
      /\ ~prev.in_block_comment
      /\ ~Has(BlockStartText(line), BlockOpenToks)
      /\ RE_PREPROCESSOR(line) )
    => Len(st.scope_stack) =
           Len(PopScopes(prev.scope_stack \o Locals(OpenBraces(CodePart(line))),
                         CloseBraces(CodePart(line))))

\* C28: in the net-client flow a host HTTP server that has been started is
\* stopped before run_net_validation returns, on every path.
C28_HostServerStopped ==
    (Left /\ mode = "net_client") => host_server # "started"

IntrospectFailures ==
    {"exit_missing_intro", "exit_other", "subprocess_error", "timeout",
     "bad_json"}

\* C29: a call of get_fuzzy_test_candidates whose meson introspect step
\* fails (non-zero exit code, subprocess error or timeout, unparsable
\* output) returns an empty list and leaves the cache file as it was; the
\* corruption marker is created only by a call whose introspect step ends
\* with a non-zero exit code and a missing-intro-file pattern.
C29_FailedIntrospectStep ==
    [][ /\ ( /\ now' = now
             /\ reconfigures' = reconfigures
             /\ answer'.source \in IntrospectFailures )
           => ( /\ answer'.candidates = << >>
                /\ cache' = cache )
        /\ (marker' /\ ~marker) => answer'.source = "exit_missing_intro"
      ]_vars

\* A timeout after a reconfigure: the stale cache of the configuration
\* before is still there and no marker has been made.
C29_Witness ==
    /\ answer.source = "timeout"
    /\ answer.asked = 1
    /\ cache.exists
    /\ cache.format = "names"
    /\ cache.written = 0
    /\ cache.mtime < build_ninja.mtime
    /\ ~marker

\* The registered names that contain the test name, letter case aside.
NamesContaining(test_name) ==
    CASE test_name = "ASYNC" -> {"fl_async", "fl_Async_pool"}
      [] test_name = "math"  -> {"fl_math"}
      [] OTHER               -> {}

\* C30: for an unchanged build directory get_fuzzy_test_candidates returns,
\* from the cache as from meson introspect, the registered names that
\* contain test_name case-insensitively, in registration order.
C30_SameCandidatesFromCacheOrIntrospect ==
    ( /\ answer.source \in {"cache", "introspect"}
      /\ answer.written = answer.asked )
    => answer.candidates =
           SelectSeq(answer.registered,
                     LAMBDA n : n \in NamesContaining(answer.test_name))

\* An answer from the cache, for a test name in capitals, with two names
\* in registration order.
C30_Witness ==
    /\ answer.source = "cache"
    /\ answer.written = answer.asked
    /\ answer.test_name = "ASYNC"
    /\ answer.candidates = << "fl_Async_pool", "fl_async" >>

=============================================================================
